---- MODULE Spec2Model ----
(***************************************************************************)
(* A model of exploiting-modern-hardware: the census / median-age pipeline  *)
(* (lectures/soa), the generic benchmark harness (timing.hpp), the random  *)
(* data generation (data-generation.hpp), the row/column demo with its two *)
(* calc_sum functors, and the unique-element exercise (lectures/intro-dm).  *)
(*                                                                         *)
(* size_t and uint32_t values are kept at their real width.  TLC's         *)
(* integers stop at 2^31 - 1, so an unsigned value v is held as the pair   *)
(* <<hi, lo>> with v = hi * 2^16 + lo and 0 <= lo < 2^16.  The pair is     *)
(* normalised, so two values are equal exactly when their pairs are.       *)
(***************************************************************************)
EXTENDS Integers, Sequences, FiniteSets, TLC

VARIABLES
    pc,               \* position of the census / median-age program
    ndebug,           \* TRUE when the build defines NDEBUG (assert compiled out)
    buckets,          \* find_median_bucket's histogram: [0..size-1 -> unsigned]
    n,                \* find_median_bucket's second argument (size_t)
    i,                \* loop index of find_median_bucket
    cumulative_total, \* running total of find_median_bucket (size_t)
    median,           \* value returned by find_median_bucket
    acc_first,        \* std::accumulate's iterator, as an index into buckets
    acc_init,         \* std::accumulate's accumulator (unsigned int)
    lib,              \* the values a default-seeded std::default_random_engine yields
    shape,            \* "aos" or "soa": the namespace whose census is in use
    population_size,  \* argument of create_random_census
    population_data,  \* the census
    visited,          \* number of individuals bucketise_by_age's loop has visited
    bpc,              \* position inside benchmark()
    f,                \* the callable: the output it gives for each input
    test_instances,   \* the batch of inputs
    output,           \* benchmark's accumulator (output_type = uint32_t)
    calls,            \* the inputs f has been called on, in call order
    clock,            \* std::chrono::steady_clock, in ticks
    start_time,       \* the reading of line 190
    end_time,         \* the reading of line 214
    printed,          \* what benchmark has written to std::cout
    run_time,         \* the float benchmark returns, as <<dividend, divisor>>
    brv_pc,           \* position inside build_rand_vec()
    brv_gen,          \* the callable gen: the value its j-th invocation returns
    brv_size,         \* build_rand_vec's argument size
    random_data,      \* build_rand_vec's vector
    brv_invocations,  \* how often gen has been invoked
    brv_first,        \* std::generate's iterator first, as an offset from begin()
    cs_pc,            \* position inside calc_sum::operator()
    cs_mode,          \* "row" or "col": the namespace of the calc_sum in use
    cs_data,          \* calc_sum's argument data, [0..size-1 -> uint32_t]
    num_cols,         \* calc_sum's member num_cols
    cs_i,             \* calc_sum's loop variable i
    cs_j,             \* calc_sum's loop variable j
    cs_sum,           \* calc_sum's local sum (uint32_t)
    cs_reads,         \* the indices of data calc_sum has read, in order
    demo_pc,          \* position inside the row/column demo's main
    argc,             \* main's argc
    arg_rows,         \* what std::strtoul makes of argv[ 1 ]
    arg_cols,         \* what std::strtoul makes of argv[ 2 ]
    demo_mode,        \* the calc_sum main hands to benchmark
    demo_tests_run,   \* the test cases benchmark has run calc_sum on
    demo_out,         \* what main has written to std::cout
    demo_exit,        \* main's exit status, -1 while it runs
    uq_pc,            \* position of the unique-element test
    uq_input,         \* the vector under test
    uq_result,        \* the value each solution returned
    rand_seed,        \* the seed main gave std::srand
    previous_data,    \* the census an earlier run of the program generated
    previous_median,  \* the median an earlier run of the program printed
    main_run,         \* 1 in the first run of the program, 2 in a later one
    main_out          \* what the median-age main has written to std::cout

medianVars == <<pc, ndebug, buckets, n, i, cumulative_total, median, acc_first, acc_init>>

censusVars == <<lib, shape, population_size, population_data, visited>>

benchVars ==
    <<bpc, f, test_instances, output, calls, clock, start_time, end_time, printed, run_time>>

genVars == <<brv_pc, brv_gen, brv_size, random_data, brv_invocations, brv_first>>

calcVars == <<cs_pc, cs_mode, cs_data, num_cols, cs_i, cs_j, cs_sum, cs_reads>>

demoVars ==
    <<demo_pc, argc, arg_rows, arg_cols, demo_mode, demo_tests_run, demo_out, demo_exit>>

uniqueVars == <<uq_pc, uq_input, uq_result>>

mainVars == <<rand_seed, previous_data, previous_median, main_run, main_out>>

extraVars == <<genVars, calcVars, demoVars, uniqueVars, mainVars>>

vars == <<medianVars, censusVars, benchVars, extraVars>>

-----------------------------------------------------------------------------
(* Bounds of the model.                                                    *)

\* number of buckets of the containers handed directly to find_median_bucket
MaxBuckets == 3

\* largest population_size (main's own is 100000000)
MaxPop == 2

\* the engine's output is folded to this period
Period == 3


-----------------------------------------------------------------------------
(* Unsigned arithmetic.                                                    *)

Base == 2^16

Norm(hi, lo) == <<hi + (lo \div Base), lo % Base>>

\* an int of the model as a size_t
ToSizeT(k) == Norm(0, k)

\* a + b in size_t (no model value comes near 2^64)
Plus(a, b) == Norm(a[1] + b[1], a[2] + b[2])

\* a > b
Greater(a, b) == a[1] > b[1] \/ (a[1] = b[1] /\ a[2] > b[2])

\* a / 2u
Half(a) == <<a[1] \div 2, (a[2] + (a[1] % 2) * Base) \div 2>>

\* conversion of a size_t to unsigned int: the low 32 bits
ToUInt32(a) == <<a[1] % Base, a[2]>>

Zero == ToSizeT(0)

Two32 == <<Base, 0>>

-----------------------------------------------------------------------------
(* The parts of the state a specification leaves unused.                   *)

\* the test instances a batch is made of
InputValues == {0, 1}

BenchIdle ==
    /\ bpc = "idle"
    /\ f = [v \in InputValues |-> Zero]
    /\ test_instances = <<>>
    /\ output = Zero
    /\ calls = <<>>
    /\ clock = 0
    /\ start_time = 0
    /\ end_time = 0
    /\ printed = <<>>
    /\ run_time = <<0, 1>>

MedianIdle ==
    /\ pc = "idle"
    /\ ndebug = FALSE
    /\ buckets = <<>>
    /\ n = Zero
    /\ i = 0
    /\ cumulative_total = Zero
    /\ median = 0
    /\ acc_first = 0
    /\ acc_init = Zero

CensusIdle ==
    /\ lib = [d \in 0..(Period - 1) |-> 0]
    /\ shape = "none"
    /\ population_size = 0
    /\ population_data = <<>>
    /\ visited = 0

GenIdle ==
    /\ brv_pc = "idle"
    /\ brv_gen = <<>>
    /\ brv_size = 0
    /\ random_data = <<>>
    /\ brv_invocations = 0
    /\ brv_first = 0

CalcIdle ==
    /\ cs_pc = "idle"
    /\ cs_mode = "none"
    /\ cs_data = <<>>
    /\ num_cols = 0
    /\ cs_i = 0
    /\ cs_j = 0
    /\ cs_sum = Zero
    /\ cs_reads = <<>>

DemoIdle ==
    /\ demo_pc = "idle"
    /\ argc = 0
    /\ arg_rows = 0
    /\ arg_cols = 0
    /\ demo_mode = "none"
    /\ demo_tests_run = 0
    /\ demo_out = <<>>
    /\ demo_exit = -1

UniqueIdle ==
    /\ uq_pc = "idle"
    /\ uq_input = <<>>
    /\ uq_result = <<>>

MainIdle ==
    /\ rand_seed = 0
    /\ previous_data = <<>>
    /\ previous_median = 0
    /\ main_run = 1
    /\ main_out = <<>>

ExtraIdle == GenIdle /\ CalcIdle /\ DemoIdle /\ UniqueIdle /\ MainIdle

-----------------------------------------------------------------------------
(* find_median_bucket, median-age.cpp:11-27                                *)

size(b) == Cardinality(DOMAIN b)

\* std::accumulate( first, last, 0u ) executes init = init + *first for each
\* element in order.  The accumulator has the type of 0u, unsigned int, so every
\* partial sum is cut to 32 bits.
AccumulateStep(init, x) == ToUInt32(Plus(init, x))

\* one step of the std::accumulate inside the assert of lines 14-15
FmbAccumulate ==
    /\ pc = "fmb_assert"
    /\ ~ndebug
    /\ acc_first < size(buckets)
    /\ acc_init' = AccumulateStep(acc_init, buckets[acc_first])
    /\ acc_first' = acc_first + 1
    /\ UNCHANGED <<pc, ndebug, buckets, n, i, cumulative_total, median>>
    /\ UNCHANGED censusVars
    /\ UNCHANGED <<benchVars, extraVars>>

\* the comparison of line 15: the unsigned int sum against the size_t n
AssertHolds(sum, m) == sum = m

\* the assert decides; under NDEBUG it is compiled out and nothing is summed
FmbAssert ==
    /\ pc = "fmb_assert"
    /\ ndebug \/ acc_first >= size(buckets)
    /\ pc' = IF ndebug \/ AssertHolds(acc_init, n) THEN "fmb_loop" ELSE "aborted"
    /\ i' = 0
    /\ cumulative_total' = Zero
    /\ UNCHANGED <<ndebug, buckets, n, median, acc_first, acc_init>>
    /\ UNCHANGED censusVars
    /\ UNCHANGED <<benchVars, extraVars>>

\* a slip: >= where line 22 has >
ExceedsHalfOrEqual(total, m) == ~Greater(Half(m), total)

\* the test of line 22
ExceedsHalf(total, m) == Greater(total, Half(m))

\* one iteration of the loop of lines 19-23
FmbScan ==
    /\ pc = "fmb_loop"
    /\ i < size(buckets)
    /\ cumulative_total' = Plus(cumulative_total, buckets[i])
    /\ IF ExceedsHalf(cumulative_total', n)
       THEN /\ median' = i
            /\ pc' = "fmb_returned"
            /\ i' = i
       ELSE /\ i' = i + 1
            /\ UNCHANGED <<median, pc>>
    /\ UNCHANGED <<ndebug, buckets, n, acc_first, acc_init>>
    /\ UNCHANGED censusVars
    /\ UNCHANGED <<benchVars, extraVars>>

\* a slip: the last index where line 26 has the size
FmbFallThroughLastIndex ==
    /\ pc = "fmb_loop"
    /\ i >= size(buckets)
    /\ median' = size(buckets) - 1
    /\ pc' = "fmb_returned"
    /\ UNCHANGED <<ndebug, buckets, n, i, cumulative_total, acc_first, acc_init>>
    /\ UNCHANGED censusVars
    /\ UNCHANGED <<benchVars, extraVars>>

\* line 26: the loop ended without a return
FmbFallThrough ==
    /\ pc = "fmb_loop"
    /\ i >= size(buckets)
    /\ median' = size(buckets)
    /\ pc' = "fmb_returned"
    /\ UNCHANGED <<ndebug, buckets, n, i, cumulative_total, acc_first, acc_init>>
    /\ UNCHANGED censusVars
    /\ UNCHANGED <<benchVars, extraVars>>

-----------------------------------------------------------------------------
(* census.hpp: the random engine and the distributions.                    *)
(*                                                                         *)
(* Every engine of census.hpp is a default-constructed                     *)
(* std::default_random_engine: it starts from the library's fixed default  *)
(* seed, so the d-th value drawn from a fresh engine is a fixed, library-  *)
(* defined value lib[d].  Each distribution object is built anew for each  *)
(* draw and maps one engine value into its own range.                      *)

RawValues == 0..2

LibStreams == [0..(Period - 1) -> RawValues]

\* an engine seeded from std::rand's state, as if by generator( std::rand() )
GeneratorSeedFromSrand == rand_seed

\* std::default_random_engine generator; the engine is default-constructed, so
\* it starts at the library's default seed, the start of lib, whatever
\* std::srand was given
GeneratorSeed == 0

RawAt(d) == lib[(GeneratorSeed + d) % Period]

\* using Age = uint8_t
SizeofAge == 1

\* age_distr( 120, .25 ): a binomial value, 0..120
AgeTrials == 120

age_distr(d) == (RawAt(d) * (AgeTrials \div 2)) % (AgeTrials + 1)

\* country_distr( 0, 255 )
CountryMax == 255

country_distr(d) == (RawAt(d) * CountryMax) % (CountryMax + 1)

\* income_distr( .5 ): a geometric value, 0, 1, 2, ...
income_distr(d) == RawAt(d)

\* hst_distr( 0.68 ): a bernoulli value
hst_distr(d) == RawAt(d) # 0

\* sex_distr( 0, 1 )
sex_distr(d) == RawAt(d) % 2

\* the offset aos::build_person adds to the income
IncomeOffset == 10000

\* aos::build_person::operator(): the braced list is evaluated left to right
\* on the functor's own engine, which has made d draws so far
build_person(d) ==
    [ age     |-> age_distr(d),
      country |-> country_distr(d + 1),
      income  |-> income_distr(d + 2) + IncomeOffset,
      hst     |-> IF hst_distr(d + 3) THEN "owner" ELSE "renter",
      sex     |-> IF sex_distr(d + 4) = 0 THEN "male" ELSE "female" ]

\* aos::create_random_census: a vector of population_size persons, each filled
\* by std::generate from one build_person{} functor
aos_create_random_census(m) == [j \in 1..m |-> build_person(5 * (j - 1))]

\* a slip: the income vector declared without its size
soa_create_random_census_short(m) ==
    [ sex     |-> [j \in 1..m |-> IF sex_distr(j - 1) = 0 THEN "male" ELSE "female"],
      age     |-> [j \in 1..m |-> age_distr(m + j - 1)],
      income  |-> <<>>,
      country |-> [j \in 1..m |-> country_distr(3 * m + j - 1)],
      hst     |-> [j \in 1..m |-> IF hst_distr(4 * m + j - 1) THEN "owner" ELSE "renter"] ]

\* soa::create_random_census: five vectors of population_size elements, filled
\* one after the other from the one local engine
soa_create_random_census(m) ==
    [ sex     |-> [j \in 1..m |-> IF sex_distr(j - 1) = 0 THEN "male" ELSE "female"],
      age     |-> [j \in 1..m |-> age_distr(m + j - 1)],
      income  |-> [j \in 1..m |-> income_distr(2 * m + j - 1)],
      country |-> [j \in 1..m |-> country_distr(3 * m + j - 1)],
      hst     |-> [j \in 1..m |-> IF hst_distr(4 * m + j - 1) THEN "owner" ELSE "renter"] ]

\* the ages bucketise_by_age iterates over, in order
Ages(sh, data) == IF sh = "aos" THEN [j \in 1..Len(data) |-> data[j].age] ELSE data.age

\* a census built by the caller, field by field, from given ages
CallerCensus(sh, ages) ==
    IF sh = "aos"
    THEN [j \in 1..Len(ages) |->
            [age |-> ages[j], country |-> 0, income |-> 0, hst |-> "renter", sex |-> "male"]]
    ELSE [ sex     |-> [j \in 1..Len(ages) |-> "male"],
           age     |-> ages,
           income  |-> [j \in 1..Len(ages) |-> 0],
           country |-> [j \in 1..Len(ages) |-> 0],
           hst     |-> [j \in 1..Len(ages) |-> "renter"] ]

-----------------------------------------------------------------------------
(* The median-age program, median-age.cpp:29-52, and the aos twin of its   *)
(* pipeline.                                                               *)

\* an age_bound that counts two bits too few
age_bound_short == 2^(8 * SizeofAge - 2)

\* auto const age_bound = 1u << ( 8 * sizeof( Age ) )
age_bound == 2^(8 * SizeofAge)

\* create_random_census( population_size ), of either namespace
CreateCensus ==
    /\ pc = "main"
    /\ \E sh \in {"aos", "soa"}, m \in 0..MaxPop :
          /\ shape' = sh
          /\ population_size' = m
          /\ population_data' = IF sh = "aos" THEN aos_create_random_census(m)
                                              ELSE soa_create_random_census(m)
    /\ pc' = "bucketise_init"
    /\ UNCHANGED <<ndebug, buckets, n, i, cumulative_total, median, acc_first, acc_init, lib, visited>>
    /\ UNCHANGED <<benchVars, extraVars>>

\* std::array< size_t, NUM_BUCKETS > buckets{}
BucketiseInit ==
    /\ pc = "bucketise_init"
    /\ buckets' = [b \in 0..(age_bound - 1) |-> Zero]
    /\ visited' = 0
    /\ pc' = "bucketise_loop"
    /\ UNCHANGED <<ndebug, n, i, cumulative_total, median, acc_first, acc_init>>
    /\ UNCHANGED <<lib, shape, population_size, population_data>>
    /\ UNCHANGED <<benchVars, extraVars>>

\* a slip: an increment that counts double
IncrementByTwo(b, age) == [b EXCEPT ![age] = Plus(@, ToSizeT(2))]

\* a slip: an increment of the neighbouring bucket
IncrementNeighbour(b, age) == [b EXCEPT ![(age + 1) % size(b)] = Plus(@, ToSizeT(1))]

\* ++buckets[ age ]
Increment(b, age) == [b EXCEPT ![age] = Plus(@, ToSizeT(1))]

\* one iteration of the range-for of bucketise_by_age; std::array's
\* operator[] checks nothing, so an age that is no index of buckets makes the
\* write undefined
BucketiseStep ==
    /\ pc = "bucketise_loop"
    /\ visited < Len(Ages(shape, population_data))
    /\ LET age == Ages(shape, population_data)[visited + 1]
       IN  IF age < size(buckets)
           THEN buckets' = Increment(buckets, age) /\ UNCHANGED pc
           ELSE pc' = "undefined" /\ UNCHANGED buckets
    /\ visited' = visited + 1
    /\ UNCHANGED <<ndebug, n, i, cumulative_total, median, acc_first, acc_init>>
    /\ UNCHANGED <<lib, shape, population_size, population_data>>
    /\ UNCHANGED <<benchVars, extraVars>>

\* return buckets; the histogram and population_size go to find_median_bucket
BucketiseReturn ==
    /\ pc = "bucketise_loop"
    /\ visited >= Len(Ages(shape, population_data))
    /\ n' = ToSizeT(population_size)
    /\ pc' = "fmb_assert"
    /\ UNCHANGED <<ndebug, buckets, i, cumulative_total, median>>
    /\ acc_first' = 0
    /\ acc_init' = ToUInt32(Zero)
    /\ UNCHANGED censusVars
    /\ UNCHANGED <<benchVars, extraVars>>

\* main, about to generate its census
GeneratedInit ==
    /\ pc = "main"
    /\ lib \in LibStreams
    /\ shape = "none"
    /\ population_size = 0
    /\ population_data = <<>>

AgeSamples == {0, 1, 2^(8 * SizeofAge) - 1}

SeqsUpTo(S, len) == UNION {[1..l -> S] : l \in 0..len}

\* bucketise_by_age about to be called on a census the caller filled in itself
SuppliedInit ==
    /\ pc = "bucketise_init"
    /\ lib = [d \in 0..(Period - 1) |-> 0]
    /\ shape \in {"aos", "soa"}
    /\ \E ages \in SeqsUpTo(AgeSamples, MaxPop) :
          /\ population_size = Len(ages)
          /\ population_data = CallerCensus(shape, ages)

CensusInit ==
    /\ ndebug \in BOOLEAN
    /\ GeneratedInit \/ SuppliedInit
    /\ buckets = [b \in 0..(age_bound - 1) |-> Zero]
    /\ n = Zero
    /\ i = 0
    /\ cumulative_total = Zero
    /\ median = 0
    /\ acc_first = 0
    /\ acc_init = ToUInt32(Zero)
    /\ visited = 0
    /\ BenchIdle
    /\ ExtraIdle

CensusNext ==
    \/ CreateCensus
    \/ BucketiseInit
    \/ BucketiseStep
    \/ BucketiseReturn
    \/ FmbAccumulate
    \/ FmbAssert
    \/ FmbScan
    \/ FmbFallThrough

CensusSpec == CensusInit /\ [][CensusNext]_vars

-----------------------------------------------------------------------------
(* csc586::benchmark::benchmark, timing.hpp (part_000:161-223), as main     *)
(* instantiates it: f maps a test instance to a uint32_t.                  *)

\* most inputs of a batch
MaxBatch == 3

\* The largest size build_rand_vec is called with.
MaxSize == 3

\* The largest number of cells of a table handed to calc_sum.
MaxCells == 4

\* The largest num_cols of a calc_sum.
MaxCols == 2

\* The longest vector handed to the unique-element solutions.
MaxInput == 5

\* values of output_type
OutputSamples == {Zero, ToSizeT(1), <<Base \div 2, 0>>, <<Base - 1, Base - 1>>}

\* time that passes while one step runs, in ticks of the steady clock
Delays == {0, 700}

\* ticks of std::chrono::steady_clock in one microsecond
TicksPerMicrosecond == 1000

\* using duration = float: 24 bits of significand
FloatBits == 24

RECURSIVE ExcessBits(_)
ExcessBits(x) == IF x < 2^FloatBits THEN 0 ELSE 1 + ExcessBits(x \div 2)

\* conversion of a non-negative integer to float: the nearest float, ties to even
ToFloat(x) ==
    LET unit == 2^ExcessBits(x)
        q    == x \div unit
        r    == x % unit
    IN  IF 2 * r > unit \/ (2 * r = unit /\ q % 2 = 1) THEN (q + 1) * unit
        ELSE q * unit

\* a slip: microseconds rounded up
MicrosecondsCeil(d) == (d + TicksPerMicrosecond - 1) \div TicksPerMicrosecond

\* std::chrono::duration_cast<std::chrono::microseconds>( d ).count(): whole
\* microseconds, the rest cut off
Microseconds(d) == d \div TicksPerMicrosecond

\* line 186: output_type output = 0.  The decltype of line 174 is an unevaluated
\* operand: it names f's return type and calls nothing.
BenchInitOutput ==
    /\ bpc = "entry"
    /\ output' = ToUInt32(Zero)
    /\ bpc' = "start_timer"
    /\ \E d \in Delays : clock' = clock + d
    /\ UNCHANGED <<f, test_instances, calls, start_time, end_time, printed, run_time>>
    /\ UNCHANGED <<medianVars, censusVars, extraVars>>

\* line 190
BenchStartTimer ==
    /\ bpc = "start_timer"
    /\ start_time' = clock
    /\ bpc' = "for_each"
    /\ \E d \in Delays : clock' = clock + d
    /\ UNCHANGED <<f, test_instances, output, calls, end_time, printed, run_time>>
    /\ UNCHANGED <<medianVars, censusVars, extraVars>>

\* a slip: the output assigned where the lambda adds it
AddOutputOverwrite(total, x) == ToUInt32(x)

\* output + f(v) in output_type: unsigned, so the sum wraps at 2^32
AddOutput(total, x) == ToUInt32(Plus(total, x))

\* a slip: the lambda calls f once more for every input
BenchCallTwice ==
    /\ bpc = "for_each"
    /\ Len(calls) < Len(test_instances)
    /\ LET v == test_instances[Len(calls) + 1]
       IN  /\ output' = AddOutput(output, f[v])
           /\ calls' = calls \o <<v, v>>
    /\ \E d \in Delays : clock' = clock + d
    /\ UNCHANGED <<bpc, f, test_instances, start_time, end_time, printed, run_time>>
    /\ UNCHANGED <<medianVars, censusVars, extraVars>>

\* a slip: the lambda prints the running total after every call
BenchCallPrinting ==
    /\ bpc = "for_each"
    /\ Len(calls) < Len(test_instances)
    /\ LET v == test_instances[Len(calls) + 1]
       IN  /\ output' = AddOutput(output, f[v])
           /\ calls' = Append(calls, v)
           /\ printed' = Append(printed, output')
    /\ \E d \in Delays : clock' = clock + d
    /\ UNCHANGED <<bpc, f, test_instances, start_time, end_time, run_time>>
    /\ UNCHANGED <<medianVars, censusVars, extraVars>>

\* one step of the std::for_each of lines 209-211: output = output + f(v)
BenchCall ==
    /\ bpc = "for_each"
    /\ Len(calls) < Len(test_instances)
    /\ LET v == test_instances[Len(calls) + 1]
       IN  /\ output' = AddOutput(output, f[v])
           /\ calls' = Append(calls, v)
    /\ \E d \in Delays : clock' = clock + d
    /\ UNCHANGED <<bpc, f, test_instances, start_time, end_time, printed, run_time>>
    /\ UNCHANGED <<medianVars, censusVars, extraVars>>

\* line 214, once the iterator has reached cend
BenchEndTimer ==
    /\ bpc = "for_each"
    /\ Len(calls) >= Len(test_instances)
    /\ end_time' = clock
    /\ bpc' = "print"
    /\ \E d \in Delays : clock' = clock + d
    /\ UNCHANGED <<f, test_instances, output, calls, start_time, printed, run_time>>
    /\ UNCHANGED <<medianVars, censusVars, extraVars>>

\* line 217
BenchPrint ==
    /\ bpc = "print"
    /\ printed' = Append(printed, output)
    /\ bpc' = "return"
    /\ \E d \in Delays : clock' = clock + d
    /\ UNCHANGED <<f, test_instances, output, calls, start_time, end_time, run_time>>
    /\ UNCHANGED <<medianVars, censusVars, extraVars>>

\* lines 221-222: count() / static_cast< duration >( test_instances.size() ), a
\* float division of the two converted operands.  There is no test for an empty
\* batch: its divisor is 0.0f and the quotient an infinity or a NaN.
BenchReturn ==
    /\ bpc = "return"
    /\ run_time' = <<ToFloat(Microseconds(end_time - start_time)),
                     ToFloat(Len(test_instances))>>
    /\ bpc' = "returned"
    /\ \E d \in Delays : clock' = clock + d
    /\ UNCHANGED <<f, test_instances, output, calls, start_time, end_time, printed>>
    /\ UNCHANGED <<medianVars, censusVars, extraVars>>

\* benchmark( f, test_instances ) has just been called
BenchInit ==
    /\ bpc = "entry"
    /\ f \in [InputValues -> OutputSamples]
    /\ test_instances \in UNION {[1..l -> InputValues] : l \in 0..MaxBatch}
    /\ output = Zero
    /\ calls = <<>>
    /\ clock \in Delays
    /\ start_time = 0
    /\ end_time = 0
    /\ printed = <<>>
    /\ run_time = <<0, 1>>
    /\ MedianIdle
    /\ CensusIdle
    /\ ExtraIdle

BenchNext ==
    \/ BenchInitOutput
    \/ BenchStartTimer
    \/ BenchCall
    \/ BenchEndTimer
    \/ BenchPrint
    \/ BenchReturn

BenchSpec == BenchInit /\ [][BenchNext]_vars

-----------------------------------------------------------------------------
(* Direct calls of find_median_bucket on caller-built containers.          *)

CountSamples == {Zero, ToSizeT(1), ToSizeT(2), Two32}

SizeSamples ==
    {ToSizeT(k) : k \in 0..5} \cup {Two32, Plus(Two32, ToSizeT(1)), Plus(Two32, Two32)}

MedianInit ==
    /\ pc = "fmb_assert"
    /\ ndebug \in BOOLEAN
    /\ buckets \in [0..(MaxBuckets - 1) -> CountSamples]
    /\ n \in SizeSamples
    /\ i = 0
    /\ cumulative_total = Zero
    /\ median = 0
    /\ acc_first = 0
    /\ acc_init = ToUInt32(Zero)
    /\ CensusIdle
    /\ BenchIdle
    /\ ExtraIdle

MedianNext == FmbAccumulate \/ FmbAssert \/ FmbScan \/ FmbFallThrough

MedianSpec == MedianInit /\ [][MedianNext]_vars

\* find_median_bucket is sequential code: while a statement is left to run, it
\* runs.
MedianFairSpec == MedianSpec /\ WF_vars(MedianNext)

-----------------------------------------------------------------------------
(* csc586::benchmark::build_rand_vec, data-generation (part_000:249-265).   *)
(*                                                                         *)
(* gen is any callable; what the model keeps of it is the value each of    *)
(* its invocations returns, brv_gen[ q ] for invocation number q counted   *)
(* from 0.  A constant gen is a brv_gen with one value throughout.         *)

GenValues == {0, 1, 2}

\* decltype((gen)())'s value-initialised value, which fills random_data( size ).
ValueInitialised == 0

\* The value invocation number q of gen returns.
gen(q) == brv_gen[q]

\* std::vector< decltype((gen)()) > random_data( size );
BrvConstruct ==
    /\ brv_pc = "entry"
    /\ random_data' = [q \in 1..brv_size |-> ValueInitialised]
    /\ brv_first' = 0
    /\ brv_pc' = "generate"
    /\ UNCHANGED <<brv_gen, brv_size, brv_invocations>>
    /\ UNCHANGED <<medianVars, censusVars, benchVars>>
    /\ UNCHANGED <<calcVars, demoVars, uniqueVars, mainVars>>

\* A std::generate that invokes gen for the first element only and copies
\* that value into the others.
BrvGenerateFill ==
    /\ brv_pc = "generate"
    /\ brv_first < Len(random_data)
    /\ random_data' = [random_data EXCEPT ![brv_first + 1] = gen(0)]
    /\ brv_invocations' = 1
    /\ brv_first' = brv_first + 1
    /\ UNCHANGED <<brv_pc, brv_gen, brv_size>>
    /\ UNCHANGED <<medianVars, censusVars, benchVars>>
    /\ UNCHANGED <<calcVars, demoVars, uniqueVars, mainVars>>

\* One round of std::generate( random_data.begin(), random_data.end(), gen ):
\* *first = gen(); ++first.
BrvGenerate ==
    /\ brv_pc = "generate"
    /\ brv_first < Len(random_data)
    /\ random_data' = [random_data EXCEPT ![brv_first + 1] = gen(brv_invocations)]
    /\ brv_invocations' = brv_invocations + 1
    /\ brv_first' = brv_first + 1
    /\ UNCHANGED <<brv_pc, brv_gen, brv_size>>
    /\ UNCHANGED <<medianVars, censusVars, benchVars>>
    /\ UNCHANGED <<calcVars, demoVars, uniqueVars, mainVars>>

\* first == last ends std::generate; return random_data.
BrvReturn ==
    /\ brv_pc = "generate"
    /\ brv_first = Len(random_data)
    /\ brv_pc' = "returned"
    /\ UNCHANGED <<brv_gen, brv_size, random_data, brv_invocations, brv_first>>
    /\ UNCHANGED <<medianVars, censusVars, benchVars>>
    /\ UNCHANGED <<calcVars, demoVars, uniqueVars, mainVars>>

GenInit ==
    /\ brv_pc = "entry"
    /\ brv_gen \in [0..(MaxSize - 1) -> GenValues]
    /\ brv_size \in 0..MaxSize
    /\ random_data = <<>>
    /\ brv_invocations = 0
    /\ brv_first = 0
    /\ MedianIdle
    /\ CensusIdle
    /\ BenchIdle
    /\ CalcIdle /\ DemoIdle /\ UniqueIdle /\ MainIdle

GenNext == BrvConstruct \/ BrvGenerate \/ BrvReturn

GenSpec == GenInit /\ [][GenNext]_vars

-----------------------------------------------------------------------------
(* row_oriented::calc_sum and col_oriented::calc_sum (part_000:23-80),      *)
(* called on a std::vector< uint32_t >.                                    *)
(*                                                                         *)
(* data[ c ] of the source is cs_data[ c + 1 ] here.  std::rand() may      *)
(* return any value of 0..RAND_MAX, so rand() % num_cols is any column.    *)
(* std::vector's operator[] checks nothing: a read at an index that is not *)
(* below data.size() is undefined.                                         *)

CellSamples == {ToSizeT(1), ToSizeT(2), <<Base - 1, Base - 1>>}

\* a num_rows that counts a last, incomplete row as well
NumRowsRoundedUp == (Len(cs_data) + num_cols - 1) \div num_cols

\* auto const num_rows = data.size() / num_cols
NumRows == Len(cs_data) \div num_cols

\* sum += data[ ... ] in uint32_t: the sum wraps at 2^32
AddCell(total, x) == ToUInt32(Plus(total, x))

\* Where calc_sum{ cols } stands after its first statements on a data of len
\* cells: with assertions on, an empty data aborts (line 33); a num_cols of 0
\* divides by zero (line 36), which is undefined; otherwise the loops begin.
CalcEntry(len, cols) ==
    IF ~ndebug /\ len = 0 THEN "aborted"
    ELSE IF cols = 0 THEN "undefined"
    ELSE "loop"

\* the assert, T sum = 0u and num_rows
CalcEnter ==
    /\ cs_pc = "entry"
    /\ cs_pc' = CalcEntry(Len(cs_data), num_cols)
    /\ cs_sum' = Zero
    /\ cs_i' = 0
    /\ cs_j' = 0
    /\ cs_reads' = <<>>
    /\ UNCHANGED <<cs_mode, cs_data, num_cols>>
    /\ UNCHANGED <<medianVars, censusVars, benchVars>>
    /\ UNCHANGED <<genVars, demoVars, uniqueVars, mainVars>>

\* row_oriented: one round of the inner loop (line 43) with the loops' steps
\* ++j and, at the end of a row, ++i.
RowRead ==
    /\ cs_pc = "loop"
    /\ cs_mode = "row"
    /\ cs_i < NumRows
    /\ cs_j < num_cols
    /\ \E r \in 0..(num_cols - 1) :
          LET cell == cs_i * num_cols + r
          IN  /\ cs_reads' = Append(cs_reads, cell)
              /\ IF cell < Len(cs_data)
                 THEN cs_sum' = AddCell(cs_sum, cs_data[cell + 1]) /\ UNCHANGED cs_pc
                 ELSE cs_pc' = "undefined" /\ UNCHANGED cs_sum
    /\ cs_j' = IF cs_j + 1 < num_cols THEN cs_j + 1 ELSE 0
    /\ cs_i' = IF cs_j + 1 < num_cols THEN cs_i ELSE cs_i + 1
    /\ UNCHANGED <<cs_mode, cs_data, num_cols>>
    /\ UNCHANGED <<medianVars, censusVars, benchVars>>
    /\ UNCHANGED <<genVars, demoVars, uniqueVars, mainVars>>

\* row_oriented: i == num_rows ends the outer loop; return sum.
RowReturn ==
    /\ cs_pc = "loop"
    /\ cs_mode = "row"
    /\ cs_i = NumRows
    /\ cs_pc' = "returned"
    /\ UNCHANGED <<cs_mode, cs_data, num_cols, cs_i, cs_j, cs_sum, cs_reads>>
    /\ UNCHANGED <<medianVars, censusVars, benchVars>>
    /\ UNCHANGED <<genVars, demoVars, uniqueVars, mainVars>>

\* col_oriented: one round of the inner loop (line 73) with the loops' steps
\* ++i and, at the end of a column, ++j.
ColRead ==
    /\ cs_pc = "loop"
    /\ cs_mode = "col"
    /\ cs_j < num_cols
    /\ cs_i < NumRows
    /\ LET cell == cs_i * num_cols + cs_j
       IN  /\ cs_reads' = Append(cs_reads, cell)
           /\ IF cell < Len(cs_data)
              THEN cs_sum' = AddCell(cs_sum, cs_data[cell + 1]) /\ UNCHANGED cs_pc
              ELSE cs_pc' = "undefined" /\ UNCHANGED cs_sum
    /\ cs_i' = IF cs_i + 1 < NumRows THEN cs_i + 1 ELSE 0
    /\ cs_j' = IF cs_i + 1 < NumRows THEN cs_j ELSE cs_j + 1
    /\ UNCHANGED <<cs_mode, cs_data, num_cols>>
    /\ UNCHANGED <<medianVars, censusVars, benchVars>>
    /\ UNCHANGED <<genVars, demoVars, uniqueVars, mainVars>>

\* col_oriented: j == num_cols ends the outer loop (with no rows every inner
\* loop is empty); return sum.
ColReturn ==
    /\ cs_pc = "loop"
    /\ cs_mode = "col"
    /\ cs_j = num_cols \/ NumRows = 0
    /\ cs_pc' = "returned"
    /\ UNCHANGED <<cs_mode, cs_data, num_cols, cs_i, cs_j, cs_sum, cs_reads>>
    /\ UNCHANGED <<medianVars, censusVars, benchVars>>
    /\ UNCHANGED <<genVars, demoVars, uniqueVars, mainVars>>

CalcInit ==
    /\ cs_pc = "entry"
    /\ cs_mode \in {"row", "col"}
    /\ cs_data \in SeqsUpTo(CellSamples, MaxCells)
    /\ num_cols \in 0..MaxCols
    /\ cs_i = 0
    /\ cs_j = 0
    /\ cs_sum = Zero
    /\ cs_reads = <<>>
    /\ pc = "idle"
    /\ ndebug \in BOOLEAN
    /\ buckets = <<>>
    /\ n = Zero
    /\ i = 0
    /\ cumulative_total = Zero
    /\ median = 0
    /\ acc_first = 0
    /\ acc_init = Zero
    /\ CensusIdle
    /\ BenchIdle
    /\ GenIdle /\ DemoIdle /\ UniqueIdle /\ MainIdle

CalcNext == CalcEnter \/ RowRead \/ RowReturn \/ ColRead \/ ColReturn

CalcSpec == CalcInit /\ [][CalcNext]_vars

-----------------------------------------------------------------------------
(* main of the row/column demo (part_000:85-123).                           *)
(*                                                                         *)
(* arg_rows and arg_cols are what std::strtoul makes of argv[ 1 ] and      *)
(* argv[ 2 ]; a text that is no number gives 0.  The cells of the test     *)
(* cases are values of std::rand(), which decide no step of main, so the   *)
(* model keeps the test cases' number and size only.                       *)

num_tests == 10

ArgcSamples == 1..4

ArgSamples == {0, 1, 2}

\* if( argc <= 1 ): the usage line and return 0
DemoUsage ==
    /\ demo_pc = "entry"
    /\ argc <= 1
    /\ demo_out' = Append(demo_out, "Usage")
    /\ demo_exit' = 0
    /\ demo_pc' = "exited"
    /\ UNCHANGED <<argc, arg_rows, arg_cols, demo_mode, demo_tests_run>>
    /\ UNCHANGED <<medianVars, censusVars, benchVars>>
    /\ UNCHANGED <<genVars, calcVars, uniqueVars, mainVars>>

\* the two std::strtoul calls.  With argc == 2, argv[ 2 ] is the null pointer
\* that ends argv, and std::strtoul( NULL, ... ) is undefined: the program
\* crashes or goes on with whatever value the call happens to yield.
DemoParse ==
    /\ demo_pc = "entry"
    /\ argc > 1
    /\ IF argc = 2
       THEN \/ demo_pc' = "crashed" /\ UNCHANGED arg_cols
            \/ demo_pc' = "generate" /\ arg_cols' \in ArgSamples
       ELSE demo_pc' = "generate" /\ UNCHANGED arg_cols
    /\ UNCHANGED <<argc, arg_rows, demo_mode, demo_tests_run, demo_out, demo_exit>>
    /\ UNCHANGED <<medianVars, censusVars, benchVars>>
    /\ UNCHANGED <<genVars, calcVars, uniqueVars, mainVars>>

\* std::srand, the num_tests test cases of num_rows * num_cols cells each, and
\* the choice of the calc_sum by argc > 3
DemoGenerate ==
    /\ demo_pc = "generate"
    /\ demo_mode' = IF argc > 3 THEN "col" ELSE "row"
    /\ demo_tests_run' = 0
    /\ demo_pc' = "benchmark"
    /\ UNCHANGED <<argc, arg_rows, arg_cols, demo_out, demo_exit>>
    /\ UNCHANGED <<medianVars, censusVars, benchVars>>
    /\ UNCHANGED <<genVars, calcVars, uniqueVars, mainVars>>

\* benchmark calls calc_sum{ num_cols } on the next test case
DemoCalcSum ==
    /\ demo_pc = "benchmark"
    /\ demo_tests_run < num_tests
    /\ LET entry == CalcEntry(arg_rows * arg_cols, arg_cols)
       IN  IF entry = "loop"
           THEN demo_tests_run' = demo_tests_run + 1 /\ UNCHANGED demo_pc
           ELSE demo_pc' = entry /\ UNCHANGED demo_tests_run
    /\ UNCHANGED <<argc, arg_rows, arg_cols, demo_mode, demo_out, demo_exit>>
    /\ UNCHANGED <<medianVars, censusVars, benchVars>>
    /\ UNCHANGED <<genVars, calcVars, uniqueVars, mainVars>>

\* benchmark prints the total and returns; main prints the average and
\* returns 0
DemoReport ==
    /\ demo_pc = "benchmark"
    /\ demo_tests_run = num_tests
    /\ demo_out' = demo_out \o <<"total", "Average time (us)">>
    /\ demo_exit' = 0
    /\ demo_pc' = "exited"
    /\ UNCHANGED <<argc, arg_rows, arg_cols, demo_mode, demo_tests_run>>
    /\ UNCHANGED <<medianVars, censusVars, benchVars>>
    /\ UNCHANGED <<genVars, calcVars, uniqueVars, mainVars>>

DemoInit ==
    /\ demo_pc = "entry"
    /\ argc \in ArgcSamples
    /\ arg_rows \in (IF argc >= 2 THEN ArgSamples ELSE {0})
    /\ arg_cols \in (IF argc >= 3 THEN ArgSamples ELSE {0})
    /\ demo_mode = "none"
    /\ demo_tests_run = 0
    /\ demo_out = <<>>
    /\ demo_exit = -1
    /\ pc = "idle"
    /\ ndebug \in BOOLEAN
    /\ buckets = <<>>
    /\ n = Zero
    /\ i = 0
    /\ cumulative_total = Zero
    /\ median = 0
    /\ acc_first = 0
    /\ acc_init = Zero
    /\ CensusIdle
    /\ BenchIdle
    /\ GenIdle /\ CalcIdle /\ UniqueIdle /\ MainIdle

DemoNext == DemoUsage \/ DemoParse \/ DemoGenerate \/ DemoCalcSum \/ DemoReport

DemoSpec == DemoInit /\ [][DemoNext]_vars

-----------------------------------------------------------------------------
(* The unique-element exercise, csc586::unique, as tests.cpp:41-95 calls    *)
(* it.  unique_element.hpp is not part of the sources at hand: the five    *)
(* solutions are modelled from what the tests and their comments say of    *)
(* them (a counting map, two nested loops, a sort with a look at both      *)
(* neighbours, the xor of all elements, a sort walked in steps of two).    *)
(* Element number c of the vector (from 0) is v[ c + 1 ].                  *)

UqValues == {0, 2, 5}

\* how often x occurs in v
Occurrences(v, x) == Cardinality({c \in 1..Len(v) : v[c] = x})

\* the values of v
Elements(v) == {v[c] : c \in 1..Len(v)}

\* exactly one value of v occurs once, every other one more than once
OneUnique(v) ==
    /\ Cardinality({x \in Elements(v) : Occurrences(v, x) = 1}) = 1
    /\ \A x \in Elements(v) : Occurrences(v, x) >= 1

\* a ^ b on unsigned values
RECURSIVE Xor(_, _)
Xor(a, b) ==
    IF a = 0 THEN b
    ELSE IF b = 0 THEN a
    ELSE (((a % 2) + (b % 2)) % 2) + 2 * Xor(a \div 2, b \div 2)

\* std::sort( v.begin(), v.end() )
Sorted(v) == SortSeq(v, LAMBDA a, b : a < b)

\* map_based: count every value in a map, return the one counted once
map_based(v) == CHOOSE x \in Elements(v) : Occurrences(v, x) = 1

\* two_loops: the first element no other position holds again
two_loops(v) ==
    LET alone(c) == \A q \in 1..Len(v) : q # c => v[q] # v[c]
        c0 == CHOOSE c \in 1..Len(v) :
                  alone(c) /\ \A q \in 1..(c - 1) : ~alone(q)
    IN  v[c0]

\* a sort_based that returns the smallest element
sort_based_front(v) == Sorted(v)[1]

\* sort_based: sort, return the first element that differs from both of its
\* neighbours
sort_based(v) ==
    LET s == Sorted(v)
        alone(c) == /\ c > 1 => s[c - 1] # s[c]
                    /\ c < Len(s) => s[c + 1] # s[c]
        c0 == CHOOSE c \in 1..Len(s) :
                  alone(c) /\ \A q \in 1..(c - 1) : ~alone(q)
    IN  s[c0]

\* the xor of the first c elements of v
RECURSIVE XorUpTo(_, _)
XorUpTo(v, c) == IF c = 0 THEN 0 ELSE Xor(XorUpTo(v, c - 1), v[c])

\* a bit_based that adds the elements where the xor is meant
bit_based_sum(v) ==
    LET RECURSIVE SumUpTo(_)
        SumUpTo(c) == IF c = 0 THEN 0 ELSE SumUpTo(c - 1) + v[c]
    IN  SumUpTo(Len(v))

\* bit_based: the xor of all elements
bit_based(v) == XorUpTo(v, Len(v))

\* skip_based: sort, walk the vector in steps of two and return the first
\* element whose pair partner differs; the last element if every pair matches
skip_based(v) ==
    LET s == Sorted(v)
        odd == {c \in 1..(Len(s) - 1) : c % 2 = 1 /\ s[c] # s[c + 1]}
    IN  IF odd = {} THEN s[Len(s)]
        ELSE s[CHOOSE c \in odd : \A q \in odd : c <= q]

\* the calls of a TEST_CASE, in the order of lines 84-94
UqMapBased ==
    /\ uq_pc = "map_based"
    /\ uq_result' = uq_result @@ ("map_based" :> map_based(uq_input))
    /\ uq_pc' = "two_loops"
    /\ UNCHANGED uq_input
    /\ UNCHANGED <<medianVars, censusVars, benchVars>>
    /\ UNCHANGED <<genVars, calcVars, demoVars, mainVars>>

UqTwoLoops ==
    /\ uq_pc = "two_loops"
    /\ uq_result' = uq_result @@ ("two_loops" :> two_loops(uq_input))
    /\ uq_pc' = "sort_based"
    /\ UNCHANGED uq_input
    /\ UNCHANGED <<medianVars, censusVars, benchVars>>
    /\ UNCHANGED <<genVars, calcVars, demoVars, mainVars>>

UqSortBased ==
    /\ uq_pc = "sort_based"
    /\ uq_result' = uq_result @@ ("sort_based" :> sort_based(uq_input))
    /\ uq_pc' = "bit_based"
    /\ UNCHANGED uq_input
    /\ UNCHANGED <<medianVars, censusVars, benchVars>>
    /\ UNCHANGED <<genVars, calcVars, demoVars, mainVars>>

UqBitBased ==
    /\ uq_pc = "bit_based"
    /\ uq_result' = uq_result @@ ("bit_based" :> bit_based(uq_input))
    /\ uq_pc' = "skip_based"
    /\ UNCHANGED uq_input
    /\ UNCHANGED <<medianVars, censusVars, benchVars>>
    /\ UNCHANGED <<genVars, calcVars, demoVars, mainVars>>

UqSkipBased ==
    /\ uq_pc = "skip_based"
    /\ uq_result' = uq_result @@ ("skip_based" :> skip_based(uq_input))
    /\ uq_pc' = "done"
    /\ UNCHANGED uq_input
    /\ UNCHANGED <<medianVars, censusVars, benchVars>>
    /\ UNCHANGED <<genVars, calcVars, demoVars, mainVars>>

UniqueInit ==
    /\ uq_pc = "map_based"
    /\ uq_input \in {v \in SeqsUpTo(UqValues, MaxInput) : OneUnique(v)}
    /\ uq_result = <<>>
    /\ MedianIdle
    /\ CensusIdle
    /\ BenchIdle
    /\ GenIdle /\ CalcIdle /\ DemoIdle /\ MainIdle

UniqueNext == UqMapBased \/ UqTwoLoops \/ UqSortBased \/ UqBitBased \/ UqSkipBased

UniqueSpec == UniqueInit /\ [][UniqueNext]_vars

-----------------------------------------------------------------------------
(* The median-age program run twice (median-age.cpp:29-52): each run seeds  *)
(* std::rand from the wall clock, generates its census, finds the median   *)
(* and prints it.  A later run is the same build of the same program, so   *)
(* lib, ndebug, the census' shape and population_size stay; what the       *)
(* earlier run generated and printed is kept for comparison.               *)

\* static_cast< uint32_t >( std::time(0) ), at two different times
SeedSamples == {1, 2}

\* line 34: std::srand
MainSrand ==
    /\ pc = "srand"
    /\ rand_seed' \in SeedSamples
    /\ pc' = IF main_run = 1 THEN "main" ELSE "main_again"
    /\ UNCHANGED <<ndebug, buckets, n, i, cumulative_total, median, acc_first, acc_init>>
    /\ UNCHANGED censusVars
    /\ UNCHANGED <<previous_data, previous_median, main_run, main_out>>
    /\ UNCHANGED <<benchVars, genVars, calcVars, demoVars, uniqueVars>>

\* line 39 in a later run: create_random_census( population_size ), of the same
\* namespace and with the same population_size as before
MainCreateAgain ==
    /\ pc = "main_again"
    /\ population_data' = IF shape = "aos"
                          THEN aos_create_random_census(population_size)
                          ELSE soa_create_random_census(population_size)
    /\ pc' = "bucketise_init"
    /\ UNCHANGED <<ndebug, buckets, n, i, cumulative_total, median, acc_first, acc_init>>
    /\ UNCHANGED <<lib, shape, population_size, visited>>
    /\ UNCHANGED <<benchVars, extraVars>>

\* lines 47-51: the median is printed (after the calculation time, which the
\* model leaves out) and main returns
MainPrint ==
    /\ pc = "fmb_returned"
    /\ main_out' = Append(main_out, median)
    /\ pc' = "exited"
    /\ UNCHANGED <<ndebug, buckets, n, i, cumulative_total, median, acc_first, acc_init>>
    /\ UNCHANGED censusVars
    /\ UNCHANGED <<rand_seed, previous_data, previous_median, main_run>>
    /\ UNCHANGED <<benchVars, genVars, calcVars, demoVars, uniqueVars>>

\* the program is started once more: a fresh process
MainRunAgain ==
    /\ pc = "exited"
    /\ main_run = 1
    /\ previous_data' = [data |-> population_data, seed |-> rand_seed]
    /\ previous_median' = median
    /\ main_run' = 2
    /\ pc' = "srand"
    /\ rand_seed' = 0
    /\ main_out' = <<>>
    /\ population_data' = <<>>
    /\ visited' = 0
    /\ buckets' = [b \in 0..(age_bound - 1) |-> Zero]
    /\ n' = Zero
    /\ i' = 0
    /\ cumulative_total' = Zero
    /\ median' = 0
    /\ acc_first' = 0
    /\ acc_init' = ToUInt32(Zero)
    /\ UNCHANGED <<ndebug, lib, shape, population_size>>
    /\ UNCHANGED <<benchVars, genVars, calcVars, demoVars, uniqueVars>>

MainInit ==
    /\ pc = "srand"
    /\ ndebug \in BOOLEAN
    /\ lib \in LibStreams
    /\ shape = "none"
    /\ population_size = 0
    /\ population_data = <<>>
    /\ buckets = [b \in 0..(age_bound - 1) |-> Zero]
    /\ n = Zero
    /\ i = 0
    /\ cumulative_total = Zero
    /\ median = 0
    /\ acc_first = 0
    /\ acc_init = ToUInt32(Zero)
    /\ visited = 0
    /\ MainIdle
    /\ BenchIdle
    /\ GenIdle /\ CalcIdle /\ DemoIdle /\ UniqueIdle

MainNext ==
    \/ MainSrand
    \/ CreateCensus
    \/ MainCreateAgain
    \/ BucketiseInit
    \/ BucketiseStep
    \/ BucketiseReturn
    \/ FmbAccumulate
    \/ FmbAssert
    \/ FmbScan
    \/ FmbFallThrough
    \/ MainPrint
    \/ MainRunAgain

MainSpec == MainInit /\ [][MainNext]_vars

-----------------------------------------------------------------------------
(* Properties.                                                             *)

\* the sum of b[lo], ..., b[hi - 1], without any cut
RECURSIVE SumRange(_, _, _)
SumRange(b, lo, hi) ==
    IF lo >= hi THEN Zero
    ELSE IF hi = lo + 1 THEN b[lo]
    ELSE LET mid == (lo + hi) \div 2
         IN  Plus(SumRange(b, lo, mid), SumRange(b, mid, hi))

Total(b) == SumRange(b, 0, size(b))

\* c > m / 2 in integer division, said without a division: 2c > m
MoreThanHalf(c, m) == Greater(Plus(c, c), m)

\* x is the smallest index whose cumulative count is more than half of m
IsMedianBucket(b, m, x) ==
    /\ x \in DOMAIN b
    /\ MoreThanHalf(SumRange(b, 0, x + 1), m)
    /\ ~MoreThanHalf(SumRange(b, 0, x), m)
    /\ \A y \in DOMAIN b : MoreThanHalf(SumRange(b, 0, y + 1), m) => y >= x

Individuals == Len(Ages(shape, population_data))

\* bucketise_by_age has just returned its histogram (find_median_bucket, which
\* receives it by value, never writes to it)
HistogramReturned == pc = "fmb_assert" /\ acc_first = 0

\* C2: the histogram bucketise_by_age returns has 256 buckets whose counts sum to
\* the population size (and, while it is being built, to the number of
\* individuals visited so far).
C2_HistogramSum ==
    /\ pc = "bucketise_loop" => Total(buckets) = ToSizeT(visited)
    /\ HistogramReturned =>
          /\ size(buckets) = 256
          /\ Total(buckets) = ToSizeT(Individuals)
          /\ Total(buckets) = ToSizeT(population_size)

C2_Witness ==
    /\ HistogramReturned
    /\ Individuals = MaxPop
    /\ Total(buckets) = ToSizeT(MaxPop)
    /\ \E a \in DOMAIN buckets : a > 0 /\ buckets[a] # Zero

\* the number of the first `upto` individuals whose age is exactly a
CountAge(a, upto) ==
    Cardinality({j \in 1..upto : Ages(shape, population_data)[j] = a})

\* C3: bucket a of the histogram holds the number of individuals of age exactly a:
\* all buckets start at zero and each individual visited adds one to the bucket
\* of its own age.
C3_BucketCounts ==
    /\ pc = "bucketise_loop" =>
          \A a \in DOMAIN buckets : buckets[a] = ToSizeT(CountAge(a, visited))
    /\ HistogramReturned =>
          \A a \in DOMAIN buckets : buckets[a] = ToSizeT(CountAge(a, Individuals))

C3_Witness ==
    /\ HistogramReturned
    /\ Individuals >= 2
    /\ \E a \in DOMAIN buckets : buckets[a] = ToSizeT(2)

\* the census came from create_random_census (pc = "main" comes before the call)
Generated == pc # "main" /\ \E d \in DOMAIN lib : lib[d] # 0

\* C4: aos::create_random_census(n) returns n records and
\* soa::create_random_census(n) five sequences of n elements each.
C4_CensusLengths ==
    pc # "main" =>
        /\ shape = "aos" => Len(population_data) = population_size
        /\ shape = "soa" =>
              /\ Len(population_data.sex) = population_size
              /\ Len(population_data.age) = population_size
              /\ Len(population_data.income) = population_size
              /\ Len(population_data.country) = population_size
              /\ Len(population_data.hst) = population_size

C4_Witness ==
    /\ Generated
    /\ shape = "soa"
    /\ population_size = MaxPop
    /\ Len(population_data.hst) = MaxPop
    /\ Len(population_data.sex) = MaxPop

\* C5 as stated, for builds that keep the assert: a histogram whose counts do not
\* sum to n ends in the assertion's abort, before any bucket is scanned.
C5_FailsLoudly ==
    (~ndebug /\ Total(buckets) # n /\ pc # "fmb_assert") =>
        (pc = "aborted" /\ i = 0 /\ cumulative_total = Zero)

RECURSIVE ExactTotal(_)
ExactTotal(j) ==
    IF j = 0 THEN Zero ELSE Plus(ExactTotal(j - 1), f[test_instances[j]])

\* j times c, without any cut
Times(j, c) == Norm(j * c[1], j * c[2])

BatchSize == Len(test_instances)

LoopDone == bpc \in {"print", "return", "returned"}

\* C7: f is called once on each input of the batch, in the batch's order, and
\* on nothing else: no call before the loop (naming the output type calls
\* nothing), input j is the j-th call, and after the loop the calls are the batch.
C7_CallsInOrder ==
    /\ bpc \in {"entry", "start_timer"} => calls = <<>>
    /\ bpc = "for_each" =>
          /\ Len(calls) <= BatchSize
          /\ \A j \in 1..Len(calls) : calls[j] = test_instances[j]
    /\ LoopDone => calls = test_instances

C7_Witness ==
    /\ bpc = "returned"
    /\ BatchSize = MaxBatch
    /\ Len(calls) = MaxBatch
    /\ calls[1] # calls[2]
    /\ calls = test_instances

\* C8 as stated: the accumulator ends as the sum of f(v) over the batch, and
\* that is what is printed.
C8_AsStated ==
    LoopDone => output = ExactTotal(BatchSize)

\* C8, amended: the accumulator starts at 0 and ends as the sum of f(v) over the
\* batch modulo 2^32, which is what is printed, once; for an f that is
\* constantly c that is (k times c) modulo 2^32.
C8_TotalModulo ==
    /\ bpc = "start_timer" => output = Zero
    /\ bpc = "for_each" => output = ToUInt32(ExactTotal(Len(calls)))
    /\ LoopDone => output = ToUInt32(ExactTotal(BatchSize))
    /\ bpc \in {"return", "returned"} => printed = <<ToUInt32(ExactTotal(BatchSize))>>
    /\ LoopDone =>
          \A c \in OutputSamples :
              (\A v \in InputValues : f[v] = c) => output = ToUInt32(Times(BatchSize, c))

C8_Witness ==
    /\ bpc = "returned"
    /\ BatchSize = MaxBatch
    /\ \E c \in OutputSamples : c # Zero /\ \A v \in InputValues : f[v] = c
    /\ ~Greater(Two32, ExactTotal(BatchSize))
    /\ printed = <<output>>
    /\ output # ExactTotal(BatchSize)

\* C9: for a batch of k >= 1 inputs the value returned is the elapsed time between
\* the two timer readings, in whole microseconds, divided by k, and it is not
\* negative.
C9_AverageMicroseconds ==
    (bpc = "returned" /\ BatchSize >= 1) =>
        /\ end_time >= start_time
        /\ run_time[1] >= 0
        /\ run_time[2] > 0
        /\ run_time[1] * BatchSize = run_time[2] * ((end_time - start_time) \div 1000)

C9_Witness ==
    /\ bpc = "returned"
    /\ BatchSize = MaxBatch
    /\ end_time - start_time > 1000
    /\ (end_time - start_time) % 1000 # 0
    /\ run_time = <<(end_time - start_time) \div 1000, MaxBatch>>

\* C10 as stated: with an empty batch benchmark ends in a reported
\* invalid-argument error: it never reaches its return, where it divides by the
\* batch size.
C10_EmptyBatchRejected ==
    BatchSize = 0 => bpc # "returned"

\* C11: build_rand_vec(gen, size) invokes gen exactly size times and returns a
\* vector of exactly size elements whose element number q is the value the q-th
\* invocation returned; never more than size invocations are made on the way;
\* for size 0 the vector is empty and gen is never invoked; a gen that always
\* returns one value v yields size copies of v.
C11_BuildRandVec ==
    /\ brv_pc # "idle" => brv_invocations <= brv_size
    /\ brv_pc = "returned" =>
        /\ brv_invocations = brv_size
        /\ Len(random_data) = brv_size
        /\ \A q \in 1..brv_size : random_data[q] = brv_gen[q - 1]
        /\ brv_size = 0 => random_data = <<>> /\ brv_invocations = 0
        /\ \A v \in GenValues :
              (\A q \in DOMAIN brv_gen : brv_gen[q] = v) =>
                  random_data = [q \in 1..brv_size |-> v]

\* build_rand_vec has returned a vector of MaxSize elements made by a gen
\* whose invocations return different values, none of them the initial one.
C11_Witness ==
    /\ brv_pc = "returned"
    /\ brv_size = MaxSize
    /\ brv_size >= 2
    /\ brv_gen[0] # brv_gen[1]
    /\ \A q \in 1..brv_size : random_data[q] # ValueInitialised

\* the sum of all cells of data, without any cut
CellTotal == SumRange(cs_data, 1, Len(cs_data) + 1)

\* how often cell number c of data has been read
ReadCount(c) == Cardinality({q \in 1..Len(cs_reads) : cs_reads[q] = c})

\* data is a table of whole rows of num_cols >= 1 cells
IsTable == num_cols >= 1 /\ Len(cs_data) = NumRows * num_cols

\* C18 as stated: for every table of num_rows x num_cols cells with num_cols >= 1,
\* a calc_sum of either orientation that has returned has read each cell
\* data[ i * num_cols + j ] exactly once and returns the sum of all cells modulo
\* 2^32, so both orientations return the same value.
C18_EachCellOnce ==
    (cs_pc = "returned" /\ IsTable) =>
        /\ \A c \in 0..(Len(cs_data) - 1) : ReadCount(c) = 1
        /\ cs_sum = ToUInt32(CellTotal)

DemoStopped == demo_pc \in {"exited", "aborted", "undefined", "crashed"}

\* C12 as stated: main has exactly two outcomes.  Without arguments it prints
\* the usage line and exits with status 0, having run nothing.  With one or more
\* arguments, whatever their values (a single argument and num_cols = 0
\* included), it never stops in another way than this: all 10 test cases run
\* through the benchmark, with the column-oriented calc_sum exactly when a third
\* argument is present, the line "Average time (us): <value>" is printed and the
\* exit status is 0.
C12_TwoOutcomes ==
    /\ (argc = 1 /\ DemoStopped) =>
        /\ demo_pc = "exited"
        /\ demo_out = <<"Usage">>
        /\ demo_exit = 0
        /\ demo_tests_run = 0
    /\ (argc >= 2 /\ DemoStopped) =>
        /\ demo_pc = "exited"
        /\ demo_tests_run = num_tests
        /\ (demo_mode = "col") <=> (argc > 3)
        /\ demo_mode \in {"row", "col"}
        /\ demo_out[Len(demo_out)] = "Average time (us)"
        /\ demo_exit = 0

\* the value of the vector under test that occurs once
TheUnique == CHOOSE x \in Elements(uq_input) : Occurrences(uq_input, x) = 1

\* every other value of the vector under test occurs exactly twice
OthersTwice ==
    \A x \in Elements(uq_input) : x # TheUnique => Occurrences(uq_input, x) = 2

IsTriplet ==
    /\ Cardinality(Elements(uq_input)) = 2
    /\ \A x \in Elements(uq_input) :
          x # TheUnique => Occurrences(uq_input, x) > 1 /\ Occurrences(uq_input, x) % 2 = 1

\* the repeated value of a triplet vector
TheRepeated == CHOOSE x \in Elements(uq_input) : x # TheUnique

C15_AgesInBounds ==
    /\ \A d \in 0..(5 * MaxPop) :
          age_distr(d) \in 0..AgeTrials /\ age_distr(d) < 2^(8 * SizeofAge)
    /\ Generated =>
          \A q \in 1..Individuals : Ages(shape, population_data)[q] \in 0..AgeTrials
    /\ pc = "bucketise_loop" =>
          /\ size(buckets) = 256
          /\ \A q \in 1..Individuals : Ages(shape, population_data)[q] \in 0..255
    /\ pc # "undefined"

\* bucketise_by_age has counted a generated census that holds the largest age,
\* 120, in bucket 120.
C15_Witness ==
    /\ HistogramReturned
    /\ Generated
    /\ Individuals >= 1
    /\ buckets[AgeTrials] # Zero

\* no prefix of the histogram has a cumulative count above n / 2
NoPrefixExceeds ==
    \A y \in DOMAIN buckets : ~MoreThanHalf(SumRange(buckets, 0, y + 1), n)

\* the precondition is violated and the assert is compiled out
Unenforced == pc # "idle" /\ ndebug /\ Total(buckets) # n

\* C16: when the counts do not sum to n, the assert is compiled out and no prefix
\* of the histogram has a cumulative count above n / 2, find_median_bucket does
\* not abort, its loop adds up the buckets one by one until all W are scanned,
\* the call returns, and the value returned is buckets.size(), which is no
\* index of the histogram.
C16_ScansAllAndReturnsSize ==
    /\ [](Unenforced /\ NoPrefixExceeds =>
            /\ pc # "aborted"
            /\ pc = "fmb_loop" =>
                  i <= size(buckets) /\ cumulative_total = SumRange(buckets, 0, i)
            /\ pc = "fmb_returned" =>
                  /\ i = size(buckets)
                  /\ cumulative_total = Total(buckets)
                  /\ median = size(buckets)
                  /\ median \notin DOMAIN buckets)
    /\ (Unenforced /\ NoPrefixExceeds) ~> (pc = "fmb_returned")

\* An NDEBUG call has returned buckets.size() for a histogram whose counts,
\* not all zero, sum to less than n and never pass n / 2.
C16_Witness ==
    /\ pc = "fmb_returned"
    /\ Unenforced
    /\ NoPrefixExceeds
    /\ Total(buckets) # Zero
    /\ median = size(buckets)

\* C17: on a non-empty batch the events of benchmark come in this order.  First
\* the accumulator is set to 0 (naming its type calls nothing and prints
\* nothing); then the start timer is read, before any call of f; then come all
\* calls of f, and only they, while nothing is printed and no timer is read;
\* then the end timer is read, after the last call and before anything is
\* printed; then the total is printed, once, at or after the end timer's reading
\* and so outside the timed interval; then the average is returned, with the
\* total printed exactly once before.
C17_EventOrder ==
    [][BatchSize >= 1 =>
        /\ bpc = "entry" =>
              /\ bpc' = "start_timer"
              /\ output' = Zero
              /\ calls' = <<>> /\ printed' = <<>>
        /\ bpc = "start_timer" =>
              /\ bpc' = "for_each"
              /\ start_time' = clock
              /\ output' = Zero
              /\ calls' = <<>> /\ printed' = <<>>
        /\ calls' # calls =>
              /\ bpc = "for_each" /\ bpc' = "for_each"
              /\ start_time' = start_time /\ start_time <= clock
              /\ end_time' = end_time
              /\ printed' = <<>>
        /\ (bpc = "for_each" /\ bpc' # "for_each") =>
              /\ bpc' = "print"
              /\ calls = test_instances /\ calls' = calls
              /\ end_time' = clock /\ start_time <= end_time'
              /\ printed' = <<>>
        /\ printed' # printed =>
              /\ bpc = "print" /\ bpc' = "return"
              /\ printed = <<>> /\ printed' = <<output>>
              /\ calls' = test_instances
              /\ end_time' = end_time /\ end_time <= clock
        /\ (bpc = "return" /\ bpc' # "return") =>
              /\ bpc' = "returned"
              /\ Len(printed) = 1 /\ printed' = printed
              /\ calls' = test_instances
        /\ bpc = "returned" => bpc' = "returned"
    ]_vars

\* benchmark has returned from a batch of two or more inputs with time having
\* passed between its two timer readings, and the total printed once.
C17_Witness ==
    /\ bpc = "returned"
    /\ BatchSize >= 2
    /\ start_time < end_time
    /\ Len(printed) = 1

\* C19 as stated: in a build that keeps the assert, the precondition check of
\* find_median_bucket agrees with the true sum of the counts for every n a
\* size_t can hold, n and totals of 2^32 or more included: the call gets past
\* the assert exactly when the counts sum to n.
C19_CheckAgreesWithTrueSum ==
    (~ndebug /\ pc \in {"fmb_loop", "fmb_returned", "aborted"}) =>
        ((pc # "aborted") <=> (Total(buckets) = n))

C21_ReadsInBounds ==
    /\ (Len(cs_data) >= 1 /\ num_cols >= 1) =>
          /\ cs_pc \notin {"aborted", "undefined"}
          /\ Len(cs_reads) <= (Len(cs_data) \div num_cols) * num_cols
          /\ \A q \in 1..Len(cs_reads) :
                /\ cs_reads[q] >= 0
                /\ cs_reads[q] < Len(cs_data)
                /\ cs_reads[q] < (Len(cs_data) \div num_cols) * num_cols
    /\ (Len(cs_data) = 0 /\ cs_pc \notin {"idle", "entry"}) =>
          /\ cs_reads = <<>>
          /\ ~ndebug => cs_pc = "aborted"

\* calc_sum has returned from a data of three cells in rows of two: it has read
\* two cells of the first row and left the third cell alone.
C21_Witness ==
    /\ cs_pc = "returned"
    /\ Len(cs_data) = 3
    /\ num_cols = 2
    /\ Len(cs_reads) = 2
    /\ \A q \in 1..Len(cs_reads) : cs_reads[q] < 2

=============================================================================
